---- MODULE Spec2Model ----
(***************************************************************************)
(* Model of the [V]PCLMULQDQ CRC glue macros of                            *)
(* arch/x86/lib/crc-pclmul-template-glue.h:                                *)
(*   DECLARE_CRC_PCLMUL_FUNCS  the four kernels and the static call,       *)
(*   INIT_CRC_PCLMUL           the one-time selection of the kernel,       *)
(*   CRC_PCLMUL                the per-call gate, FPU section and call.    *)
(* The kernels (crc-pclmul-template.S) and the scalar fallback that the    *)
(* caller runs when CRC_PCLMUL falls through are external to the header;   *)
(* they are modelled as a byte-at-a-time table CRC of 8 bits.              *)
(***************************************************************************)
EXTENDS Integers, Sequences, FiniteSets, TLC

\* ------------------------------------------------------------------ bounds
\* Largest buffer length of a call (covers 15/16 and 63/64/65).
MaxLen == 65
\* Initial accumulators of a call are 0..MaxAcc.
MaxAcc == 1
\* Number of execution contexts (and of distinct buffers).
NCtx == 2

\* ------------------------------------------------------- program constants
\* CRC_PCLMUL: (is_fallback_sliced) ? 64 : 16
SlicedThreshold == 64
NaiveThreshold == 16
\* "The SIMD functions require len >= 16."
MinKernelLen == 16

Ctx == 1..NCtx
Bufs == 1..NCtx
Acc == 0..MaxAcc
Lens == 0..MaxLen
Variants == {"sse", "avx2", "avx10_256", "avx10_512"}

\* ------------------------------------------- external CRC (8-bit, table)
CrcMod == 256
CrcPoly == 7

RECURSIVE XorN(_, _, _)
XorN(a, b, n) ==
    IF n = 0 THEN 0
    ELSE ((((a % 2) + (b % 2)) % 2) + (2 * XorN(a \div 2, b \div 2, n - 1)))

\* Exclusive or of two nibbles, tabulated once.
XorRow(a) == (0 :> XorN(a, 0, 4)) @@ [b \in 1..15 |-> XorN(a, b, 4)]
XorTable == (0 :> XorRow(0)) @@ [a \in 1..15 |-> XorRow(a)]

\* Exclusive or of two bytes.
Xor8(a, b) ==
    XorTable[a % 16][b % 16] + (16 * XorTable[(a \div 16) % 16][(b \div 16) % 16])

RECURSIVE CrcShift(_, _)
CrcShift(x, n) ==
    IF n = 0 THEN x
    ELSE CrcShift(IF x >= CrcMod \div 2
                  THEN Xor8((2 * x) % CrcMod, CrcPoly)
                  ELSE 2 * x,
                  n - 1)

\* The CRC table (one entry per byte value), built once.
CrcTable == (0 :> CrcShift(0, 8)) @@ [x \in 1..(CrcMod - 1) |-> CrcShift(x, 8)]

\* The byte at offset i of buffer p: the buffers are distinct and do not overlap.
Data(b, i) == ((53 * b) + (29 * i) + (7 * (i \div 5)) + 11) % CrcMod

\* One byte of the table-driven CRC.
CrcByte(a, x) == CrcTable[Xor8(a, x)]

\* The CRC of bytes lo..hi-1 of buffer b, from accumulator a. The range is
\* halved and the left half is computed first, so that the evaluation stays
\* shallow; the bytes are taken in order.
RECURSIVE CrcRange(_, _, _, _)
CrcRange(a, b, lo, hi) ==
    IF hi <= lo THEN a
    ELSE IF hi = lo + 1 THEN CrcByte(a, Data(b, lo))
    ELSE LET mid == (lo + hi) \div 2
             left == CrcRange(a, b, lo, mid)
         IN  IF left \in 0..(CrcMod - 1) THEN CrcRange(left, b, mid, hi) ELSE left

\* The scalar fallback the caller runs after CRC_PCLMUL falls through.
crc_fallback(a, b, n) == CrcRange(a, b, 0, n)

\* A kernel of crc-pclmul-template.S: equal to the fallback for len >= 16,
\* unspecified below that.
crc_kernel(variant, a, b, n) ==
    IF n >= MinKernelLen THEN {crc_fallback(a, b, n)}
    ELSE 0..(CrcMod - 1)

\* -------------------------------------------------------------- state
VARIABLES
    features,            \* IS_ENABLED / boot_cpu_has / cpu_has_xfeatures values
    have_pclmulqdq,      \* the caller's static key passed to CRC_PCLMUL
    is_fallback_sliced,  \* the caller's fallback kind passed to CRC_PCLMUL
    slot,                \* target of the static call prefix##_pclmul
    initDone,            \* INIT_CRC_PCLMUL has run
    updates,             \* number of static_call_update calls made
    pc,                  \* per context: position in CRC_PCLMUL / its caller
    crc0,                \* per context: accumulator passed in
    crc,                 \* per context: the variable crc of the macro
    p,                   \* per context: buffer
    len,                 \* per context: length
    usable,              \* per context: crypto_simd_usable()
    fpu,                 \* per context: depth of kernel_fpu_begin sections
    nbegin,              \* per context: kernel_fpu_begin calls of this call
    nend,                \* per context: kernel_fpu_end calls of this call
    invoked,             \* per context: kernel the static call ran, or "none"
    path,                \* per context: "none", "accel" or "fallback"
    ret                  \* per context: value returned to the caller

\* State of the AMD 3D V-Cache driver (drivers/platform/x86/amd/x3d_vcache.c).
VARIABLES
    x3d_mode,            \* the module parameter x3d_mode
    probed,              \* "no", "bound" (probe returned 0) or "failed"
    probe_in,            \* what the platform answered during amd_x3d_probe
    probe_ret,           \* return value of amd_x3d_probe
    probe_set,           \* amd_x3d_probe evaluated the DSM_SET_X3D_MODE method
    curr_mode,           \* data->curr_mode
    lock,                \* data->lock: 0 when free, else the thread holding it
    fw_mode,             \* mode of the last successful DSM_SET_X3D_MODE, or -1
    stored,              \* a store has assigned curr_mode since the probe
    shown,               \* what the last amd_x3d_mode_show returned
    xpc,                 \* per thread: position in amd_x3d_mode_store
    xbuf,                \* per thread: buf
    xreq,                \* per thread: new_state
    xok,                 \* per thread: acpi_evaluate_dsm returned an object
    xsw,                 \* per thread: return value of amd_x3d_mode_switch
    xret,                \* per thread: return value of amd_x3d_mode_store
    xdsm,                \* per thread: this store evaluated the method
    xwrote               \* per thread: this store assigned curr_mode

x3dvars == <<x3d_mode, probed, probe_in, probe_ret, probe_set, curr_mode, lock,
             fw_mode, stored, shown, xpc, xbuf, xreq, xok, xsw, xret, xdsm, xwrote>>

cfgvars == <<features, have_pclmulqdq, is_fallback_sliced>>
initvars == <<slot, initDone, updates>>
ctxvars == <<pc, crc0, crc, p, len, usable, fpu, nbegin, nend, invoked, path, ret>>
crcvars == <<features, have_pclmulqdq, is_fallback_sliced, slot, initDone, updates,
             pc, crc0, crc, p, len, usable, fpu, nbegin, nend, invoked, path, ret>>
vars == <<crcvars, x3dvars>>

FeatureSets ==
    [as_vpclmulqdq : BOOLEAN, vpclmulqdq : BOOLEAN, avx2 : BOOLEAN, ymm : BOOLEAN,
     avx512bw : BOOLEAN, avx512vl : BOOLEAN, xavx512 : BOOLEAN, prefer_ymm : BOOLEAN]

\* Feature sets in which the flags of one vector width come together.
FeatureCases ==
    {f \in FeatureSets : /\ f.vpclmulqdq = f.avx2 /\ f.avx2 = f.ymm
                         /\ f.avx512bw = f.avx512vl /\ f.avx512vl = f.xavx512}

\* One feature set per kernel.
ConcFeatureCases ==
    {f \in FeatureCases : /\ f.as_vpclmulqdq
                          /\ (f.avx512bw => f.avx2)
                          /\ (f.prefer_ymm => f.avx512bw)}

\* DEFINE_STATIC_CALL(prefix##_pclmul, prefix##_pclmul_sse)
DefaultTarget_avx2 == "avx2"
DefaultTarget == "sse"

\* ------------------------------------------------ x3d_vcache.c: data
\* Number of threads writing the mode attribute.
NStore == 2
Thr == 1..NStore

\* enum amd_x3d_mode_type
MODE_INDEX_FREQ == 0
MODE_INDEX_CACHE == 1

\* errno values
ENOMEM == 12
ENODEV == 19
EINVAL == 22

\* C strings as sequences of characters.
NL == "\n"
FREQUENCY == <<"f", "r", "e", "q", "u", "e", "n", "c", "y">>
CACHE == <<"c", "a", "c", "h", "e">>
CACH == <<"c", "a", "c", "h">>
TURBO == <<"t", "u", "r", "b", "o">>

\* amd_x3d_mode_strings[]: entry i of the C array is element i + 1.
amd_x3d_mode_strings_swapped == <<CACHE, FREQUENCY>>
amd_x3d_mode_strings == <<FREQUENCY, CACHE>>

\* Values of the module parameter x3d_mode.
ParamCases == {FREQUENCY, CACHE, FREQUENCY \o <<NL>>, TURBO}

\* Strings written to the mode attribute.
StoreBufs == {FREQUENCY \o <<NL>>, CACHE, CACH, TURBO \o <<NL>>}

\* What the platform may answer during amd_x3d_probe: ACPI_HANDLE,
\* acpi_match_device, devm_kzalloc, the DSM_GET_FUNCS_SUPPORTED object ("none",
\* "buffer" or "other"), the DSM_SET_X3D_MODE object, devm_add_action_or_reset.
ProbeInputs ==
    [handle : BOOLEAN, id : BOOLEAN, alloc : BOOLEAN,
     sup : {"none", "buffer", "other"}, dsm : BOOLEAN, devm : BOOLEAN]

\* The answers of a platform that has the device and supports the method.
SupportedInputs ==
    {i \in ProbeInputs : i.handle /\ i.id /\ i.alloc /\ i.sup = "buffer"}

NoProbeInput ==
    [handle |-> FALSE, id |-> FALSE, alloc |-> FALSE, sup |-> "none",
     dsm |-> FALSE, devm |-> FALSE]

NotShown == [err |-> 0, mode |-> MODE_INDEX_FREQ, text |-> <<>>]

\* The driver before amd_x3d_probe, loaded with x3d_mode in P.
X3dInit(P) ==
    /\ x3d_mode \in P
    /\ probed = "no"
    /\ probe_in = NoProbeInput
    /\ probe_ret = 0
    /\ probe_set = FALSE
    /\ curr_mode = MODE_INDEX_FREQ
    /\ lock = 0
    /\ fw_mode = -1
    /\ stored = FALSE
    /\ shown = NotShown
    /\ xpc = [t \in Thr |-> "idle"]
    /\ xbuf = [t \in Thr |-> <<>>]
    /\ xreq = [t \in Thr |-> 0]
    /\ xok = [t \in Thr |-> FALSE]
    /\ xsw = [t \in Thr |-> 0]
    /\ xret = [t \in Thr |-> 0]
    /\ xdsm = [t \in Thr |-> FALSE]
    /\ xwrote = [t \in Thr |-> FALSE]

CtxInit ==
    /\ pc = [c \in Ctx |-> "idle"]
    /\ crc0 = [c \in Ctx |-> 0]
    /\ crc = [c \in Ctx |-> 0]
    /\ p = [c \in Ctx |-> c]
    /\ len = [c \in Ctx |-> 0]
    /\ usable = [c \in Ctx |-> FALSE]
    /\ fpu = [c \in Ctx |-> 0]
    /\ nbegin = [c \in Ctx |-> 0]
    /\ nend = [c \in Ctx |-> 0]
    /\ invoked = [c \in Ctx |-> "none"]
    /\ path = [c \in Ctx |-> "none"]
    /\ ret = [c \in Ctx |-> 0]

InitWith(F) ==
    /\ features \in F
    /\ have_pclmulqdq \in BOOLEAN
    /\ is_fallback_sliced \in BOOLEAN
    /\ slot = DefaultTarget
    /\ initDone = FALSE
    /\ updates = 0
    /\ CtxInit
    /\ X3dInit({FREQUENCY})

\* ------------------------------------------------------ INIT_CRC_PCLMUL
\* The static_call_update calls INIT_CRC_PCLMUL makes, in order.
INIT_CRC_PCLMUL_updates_noymm(f) ==
    IF f.as_vpclmulqdq /\ f.vpclmulqdq /\ f.avx2
    THEN IF f.avx512bw /\ f.avx512vl /\ f.xavx512
         THEN IF f.prefer_ymm THEN <<"avx10_256">> ELSE <<"avx10_512">>
         ELSE <<"avx2">>
    ELSE <<>>

INIT_CRC_PCLMUL_updates_nowide1(f) ==
    IF f.as_vpclmulqdq /\ f.vpclmulqdq /\ f.avx2 /\ f.ymm
    THEN IF f.avx512bw /\ f.avx512vl /\ f.xavx512
         THEN IF f.prefer_ymm THEN <<"avx10_256">> ELSE <<"avx10_512">>
         ELSE <<>>
    ELSE <<>>

INIT_CRC_PCLMUL_updates_noelse(f) ==
    IF f.as_vpclmulqdq /\ f.vpclmulqdq /\ f.avx2 /\ f.ymm
    THEN (IF f.avx512bw /\ f.avx512vl /\ f.xavx512
          THEN IF f.prefer_ymm THEN <<"avx10_256">> ELSE <<"avx10_512">>
          ELSE <<>>) \o <<"avx2">>
    ELSE <<>>

INIT_CRC_PCLMUL_updates(f) ==
    IF f.as_vpclmulqdq /\ f.vpclmulqdq /\ f.avx2 /\ f.ymm
    THEN IF f.avx512bw /\ f.avx512vl /\ f.xavx512
         THEN IF f.prefer_ymm THEN <<"avx10_256">> ELSE <<"avx10_512">>
         ELSE <<"avx2">>
    ELSE <<>>

\* static_call_update applied for each element of ws, starting from target t.
static_call_update(t, ws) == IF ws = <<>> THEN t ELSE ws[Len(ws)]

INIT_CRC_PCLMUL ==
    /\ ~initDone
    /\ slot' = static_call_update(slot, INIT_CRC_PCLMUL_updates(features))
    /\ updates' = updates + Len(INIT_CRC_PCLMUL_updates(features))
    /\ initDone' = TRUE
    /\ UNCHANGED <<x3dvars, cfgvars, ctxvars>>

\* ------------------------------------------------------------ CRC_PCLMUL
\* The caller publishes the CRC entry point only after its init call has run
\* INIT_CRC_PCLMUL.
Published_always == TRUE
Published == initDone

\* (is_fallback_sliced) ? 64 : 16
Threshold_zero(sliced) == IF sliced THEN SlicedThreshold ELSE 0
Threshold_low(sliced) == IF sliced THEN SlicedThreshold ELSE NaiveThreshold \div 2
Threshold(sliced) == IF sliced THEN SlicedThreshold ELSE NaiveThreshold

\* The condition of the if of CRC_PCLMUL.
GateCond_nokey(c) ==
    /\ len[c] >= Threshold(is_fallback_sliced)
    /\ usable[c]

GateCond_nolen(c) ==
    /\ have_pclmulqdq
    /\ usable[c]

GateCond_notbaseline(c) ==
    /\ len[c] >= Threshold(is_fallback_sliced)
    /\ have_pclmulqdq
    /\ usable[c]
    /\ slot # DefaultTarget

GateCond_nosimd(c) ==
    /\ len[c] >= Threshold(is_fallback_sliced)
    /\ have_pclmulqdq

GateCond(c) ==
    /\ len[c] >= Threshold(is_fallback_sliced)
    /\ have_pclmulqdq
    /\ usable[c]

kernel_fpu_begin(c) == [fpu EXCEPT ![c] = @ + 1]

kernel_fpu_end_noop(c) == fpu
kernel_fpu_end(c) == [fpu EXCEPT ![c] = @ - 1]

\* crc = static_call(...)(...): the assignment to the caller's local crc.
StoreCrc_shared(c, r) == [d \in Ctx |-> r]
StoreCrc(c, r) == [crc EXCEPT ![c] = r]

\* A caller enters its CRC function with accumulator a, buffer b and length l,
\* in a context where crypto_simd_usable() is u.
Call(c, L, A, B) ==
    /\ pc[c] = "idle"
    /\ Published
    /\ \E l \in L, a \in A, b \in B, u \in BOOLEAN :
          /\ len' = [len EXCEPT ![c] = l]
          /\ crc0' = [crc0 EXCEPT ![c] = a]
          /\ crc' = [crc EXCEPT ![c] = a]
          /\ p' = [p EXCEPT ![c] = b]
          /\ usable' = [usable EXCEPT ![c] = u]
    /\ pc' = [pc EXCEPT ![c] = "entry"]
    /\ nbegin' = [nbegin EXCEPT ![c] = 0]
    /\ nend' = [nend EXCEPT ![c] = 0]
    /\ invoked' = [invoked EXCEPT ![c] = "none"]
    /\ path' = [path EXCEPT ![c] = "none"]
    /\ ret' = [ret EXCEPT ![c] = 0]
    /\ UNCHANGED <<x3dvars, cfgvars, initvars, fpu>>

\* Calls of one context over every length, accumulator and buffer.
CallSeq(c) == Call(c, Lens, Acc, Bufs)

\* Calls of concurrent contexts, each on its own buffer, at the threshold.
ConcLens == {Threshold(is_fallback_sliced) - 1, Threshold(is_fallback_sliced)}
ConcAcc == {0, MaxAcc}
CallConc(c) == Call(c, ConcLens, ConcAcc, {c})

\* The if of CRC_PCLMUL is taken: consts_ptr is set.
GateTaken(c) ==
    /\ pc[c] = "entry"
    /\ GateCond(c)
    /\ pc' = [pc EXCEPT ![c] = "begin"]
    /\ path' = [path EXCEPT ![c] = "accel"]
    /\ UNCHANGED <<x3dvars, cfgvars, initvars, crc0, crc, p, len, usable, fpu, nbegin, nend,
                   invoked, ret>>

\* The if of CRC_PCLMUL is not taken: the macro falls through to the caller.
GateNotTaken(c) ==
    /\ pc[c] = "entry"
    /\ ~GateCond(c)
    /\ pc' = [pc EXCEPT ![c] = "fallback"]
    /\ path' = [path EXCEPT ![c] = "fallback"]
    /\ UNCHANGED <<x3dvars, cfgvars, initvars, crc0, crc, p, len, usable, fpu, nbegin, nend,
                   invoked, ret>>

FpuBegin(c) ==
    /\ pc[c] = "begin"
    /\ fpu' = kernel_fpu_begin(c)
    /\ nbegin' = [nbegin EXCEPT ![c] = @ + 1]
    /\ pc' = [pc EXCEPT ![c] = "call"]
    /\ UNCHANGED <<x3dvars, cfgvars, initvars, crc0, crc, p, len, usable, nend, invoked,
                   path, ret>>

StaticCall(c) ==
    /\ pc[c] = "call"
    /\ \E r \in crc_kernel(slot, crc[c], p[c], len[c]) : crc' = StoreCrc(c, r)
    /\ invoked' = [invoked EXCEPT ![c] = slot]
    /\ pc' = [pc EXCEPT ![c] = "end"]
    /\ UNCHANGED <<x3dvars, cfgvars, initvars, crc0, p, len, usable, fpu, nbegin, nend,
                   path, ret>>

FpuEnd(c) ==
    /\ pc[c] = "end"
    /\ fpu' = kernel_fpu_end(c)
    /\ nend' = [nend EXCEPT ![c] = @ + 1]
    /\ pc' = [pc EXCEPT ![c] = "return"]
    /\ UNCHANGED <<x3dvars, cfgvars, initvars, crc0, crc, p, len, usable, nbegin, invoked,
                   path, ret>>

\* return crc;
Return(c) ==
    /\ pc[c] = "return"
    /\ ret' = [ret EXCEPT ![c] = crc[c]]
    /\ pc' = [pc EXCEPT ![c] = "done"]
    /\ UNCHANGED <<x3dvars, cfgvars, initvars, crc0, crc, p, len, usable, fpu, nbegin, nend,
                   invoked, path>>

\* The caller's code after the macro: return the scalar fallback's result.
Fallback(c) ==
    /\ pc[c] = "fallback"
    /\ ret' = [ret EXCEPT ![c] = crc_fallback(crc[c], p[c], len[c])]
    /\ pc' = [pc EXCEPT ![c] = "done"]
    /\ UNCHANGED <<x3dvars, cfgvars, initvars, crc0, crc, p, len, usable, fpu, nbegin, nend,
                   invoked, path>>

\* The caller has used the returned value; the context is free for another call.
Consume(c) ==
    /\ pc[c] = "done"
    /\ pc' = [pc EXCEPT ![c] = "idle"]
    /\ crc0' = [crc0 EXCEPT ![c] = 0]
    /\ crc' = [crc EXCEPT ![c] = 0]
    /\ p' = [p EXCEPT ![c] = c]
    /\ len' = [len EXCEPT ![c] = 0]
    /\ usable' = [usable EXCEPT ![c] = FALSE]
    /\ nbegin' = [nbegin EXCEPT ![c] = 0]
    /\ nend' = [nend EXCEPT ![c] = 0]
    /\ invoked' = [invoked EXCEPT ![c] = "none"]
    /\ path' = [path EXCEPT ![c] = "none"]
    /\ ret' = [ret EXCEPT ![c] = 0]
    /\ UNCHANGED <<x3dvars, cfgvars, initvars, fpu>>

\* ------------------------------------------ x3d_vcache.c: operations
\* sysfs_streq: equal, ignoring one trailing newline of either string.
sysfs_streq(s1, s2) ==
    \/ s1 = s2
    \/ s2 = s1 \o <<NL>>
    \/ s1 = s2 \o <<NL>>

\* sysfs_match_string: index of the first entry sysfs_streq to str, or -EINVAL.
sysfs_match_string(arr, str) ==
    IF \E k \in 1..Len(arr) : sysfs_streq(arr[k], str)
    THEN (CHOOSE k \in 1..Len(arr) :
              /\ sysfs_streq(arr[k], str)
              /\ \A j \in 1..(k - 1) : ~sysfs_streq(arr[j], str)) - 1
    ELSE -EINVAL

\* match_string: index of the first entry equal to str, or -EINVAL.
match_string(arr, str) ==
    IF \E k \in 1..Len(arr) : arr[k] = str
    THEN (CHOOSE k \in 1..Len(arr) :
              /\ arr[k] = str
              /\ \A j \in 1..(k - 1) : arr[j] # str) - 1
    ELSE -EINVAL

\* amd_x3d_supported, given the object of DSM_GET_FUNCS_SUPPORTED.
amd_x3d_supported(obj) ==
    IF obj = "none" THEN -ENODEV
    ELSE IF obj # "buffer" THEN -EINVAL
    ELSE 0

\* amd_x3d_mode_show for data->curr_mode = m.
amd_x3d_mode_show(m) ==
    IF m > MODE_INDEX_CACHE \/ m < MODE_INDEX_FREQ
    THEN [err |-> -EINVAL, mode |-> m, text |-> <<>>]
    ELSE [err |-> 0, mode |-> m, text |-> amd_x3d_mode_strings[m + 1] \o <<NL>>]

\* amd_x3d_mode_switch run alone (the mutex is free): return value, curr_mode
\* and the firmware's mode afterwards.
mode_switch_alone(out, new_state, cur, fw) ==
    IF ~out
    THEN [ret |-> -EINVAL, curr |-> cur, fw |-> fw]
    ELSE [ret |-> 0, curr |-> new_state, fw |-> new_state]

\* amd_x3d_probe with the platform answering i and the module parameter par.
\* A failed acpi_match_device and a failed amd_x3d_supported are only logged
\* with dev_err_probe: the function goes on.
ProbeOutcome(i, par) ==
    LET none == [ret |-> 0, set |-> FALSE, curr |-> MODE_INDEX_FREQ, fw |-> -1]
        m == match_string(amd_x3d_mode_strings, par)
        sw == mode_switch_alone(i.dsm, m, MODE_INDEX_FREQ, -1)
    IN  IF ~i.handle THEN [none EXCEPT !.ret = -ENODEV]
        ELSE IF ~i.alloc THEN [none EXCEPT !.ret = -ENOMEM]
        ELSE IF m < 0 THEN [none EXCEPT !.ret = -EINVAL]
        ELSE IF sw.ret < 0
             THEN [ret |-> sw.ret, set |-> TRUE, curr |-> sw.curr, fw |-> sw.fw]
        ELSE [ret |-> (IF i.devm THEN 0 ELSE -ENOMEM),
              set |-> TRUE, curr |-> sw.curr, fw |-> sw.fw]

thrvars == <<xpc, xbuf, xreq, xok, xsw, xret, xdsm, xwrote>>

amd_x3d_probe(I) ==
    /\ probed = "no"
    /\ \E i \in I :
          LET r == ProbeOutcome(i, x3d_mode)
          IN  /\ probe_in' = i
              /\ probe_ret' = r.ret
              /\ probe_set' = r.set
              /\ curr_mode' = r.curr
              /\ fw_mode' = r.fw
              /\ probed' = IF r.ret = 0 THEN "bound" ELSE "failed"
    /\ UNCHANGED <<crcvars, x3d_mode, lock, stored, shown, thrvars>>

\* amd_x3d_probe on any platform, and on a platform that supports the method.
ProbeAny == amd_x3d_probe(ProbeInputs)
ProbeSupported == amd_x3d_probe(SupportedInputs)

\* amd_x3d_mode_store up to the call of amd_x3d_mode_switch.
StoreEnter(t) ==
    /\ probed = "bound"
    /\ xpc[t] = "idle"
    /\ \E b \in StoreBufs :
          LET r == sysfs_match_string(amd_x3d_mode_strings, b)
          IN  /\ xbuf' = [xbuf EXCEPT ![t] = b]
              /\ IF r < 0
                 THEN /\ xret' = [xret EXCEPT ![t] = r]
                      /\ xpc' = [xpc EXCEPT ![t] = "returned"]
                      /\ xreq' = xreq
                 ELSE /\ xreq' = [xreq EXCEPT ![t] = r]
                      /\ xpc' = [xpc EXCEPT ![t] = "lock"]
                      /\ xret' = xret
    /\ UNCHANGED <<crcvars, x3d_mode, probed, probe_in, probe_ret, probe_set,
                   curr_mode, lock, fw_mode, stored, shown, xok, xsw, xdsm, xwrote>>

\* guard(mutex)(&data->lock): the thread waits until the mutex is free.
MutexAvailable_nolock(t) == TRUE
MutexAvailable(t) == lock = 0

MutexLock(t) ==
    /\ xpc[t] = "lock"
    /\ MutexAvailable(t)
    /\ lock' = t
    /\ xpc' = [xpc EXCEPT ![t] = "dsm"]
    /\ UNCHANGED <<crcvars, x3d_mode, probed, probe_in, probe_ret, probe_set,
                   curr_mode, fw_mode, stored, shown, xbuf, xreq, xok, xsw, xret,
                   xdsm, xwrote>>

\* if (!out) return -EINVAL; otherwise go on to the assignment.
AfterDsm_noreturn(out) == "set"
AfterDsm(out) == IF out THEN "set" ELSE "unlock"

\* acpi_evaluate_dsm(..., DSM_SET_X3D_MODE, &argv): the firmware answers or not.
EvaluateDsm(t) ==
    /\ xpc[t] = "dsm"
    /\ \E out \in BOOLEAN :
          /\ xok' = [xok EXCEPT ![t] = out]
          /\ fw_mode' = IF out THEN xreq[t] ELSE fw_mode
          /\ xsw' = [xsw EXCEPT ![t] = IF out THEN 0 ELSE -EINVAL]
          /\ xpc' = [xpc EXCEPT ![t] = AfterDsm(out)]
    /\ xdsm' = [xdsm EXCEPT ![t] = TRUE]
    /\ UNCHANGED <<crcvars, x3d_mode, probed, probe_in, probe_ret, probe_set,
                   curr_mode, lock, stored, shown, xbuf, xreq, xret, xwrote>>

\* data->curr_mode = new_state; ACPI_FREE(out); return 0;
SetMode(t) ==
    /\ xpc[t] = "set"
    /\ curr_mode' = xreq[t]
    /\ stored' = TRUE
    /\ xwrote' = [xwrote EXCEPT ![t] = TRUE]
    /\ xsw' = [xsw EXCEPT ![t] = 0]
    /\ xpc' = [xpc EXCEPT ![t] = "unlock"]
    /\ UNCHANGED <<crcvars, x3d_mode, probed, probe_in, probe_ret, probe_set,
                   lock, fw_mode, shown, xbuf, xreq, xok, xret, xdsm>>

\* The guard leaves scope on return from amd_x3d_mode_switch.
MutexUnlock(t) ==
    /\ xpc[t] = "unlock"
    /\ lock' = 0
    /\ xpc' = [xpc EXCEPT ![t] = "switched"]
    /\ UNCHANGED <<crcvars, x3d_mode, probed, probe_in, probe_ret, probe_set,
                   curr_mode, fw_mode, stored, shown, xbuf, xreq, xok, xsw, xret,
                   xdsm, xwrote>>

\* return ret ? ret : count;  count is the length of buf.
StoreReturn(t) ==
    /\ xpc[t] = "switched"
    /\ xret' = [xret EXCEPT ![t] = IF xsw[t] # 0 THEN xsw[t] ELSE Len(xbuf[t])]
    /\ xpc' = [xpc EXCEPT ![t] = "returned"]
    /\ UNCHANGED <<crcvars, x3d_mode, probed, probe_in, probe_ret, probe_set,
                   curr_mode, lock, fw_mode, stored, shown, xbuf, xreq, xok, xsw,
                   xdsm, xwrote>>

\* The writer has its result; the thread may write again.
StoreDone(t) ==
    /\ xpc[t] = "returned"
    /\ xpc' = [xpc EXCEPT ![t] = "idle"]
    /\ xbuf' = [xbuf EXCEPT ![t] = <<>>]
    /\ xreq' = [xreq EXCEPT ![t] = 0]
    /\ xok' = [xok EXCEPT ![t] = FALSE]
    /\ xsw' = [xsw EXCEPT ![t] = 0]
    /\ xret' = [xret EXCEPT ![t] = 0]
    /\ xdsm' = [xdsm EXCEPT ![t] = FALSE]
    /\ xwrote' = [xwrote EXCEPT ![t] = FALSE]
    /\ UNCHANGED <<crcvars, x3d_mode, probed, probe_in, probe_ret, probe_set,
                   curr_mode, lock, fw_mode, stored, shown>>

\* A read of the mode attribute.
Show ==
    /\ probed = "bound"
    /\ shown' = amd_x3d_mode_show(curr_mode)
    /\ UNCHANGED <<crcvars, x3d_mode, probed, probe_in, probe_ret, probe_set,
                   curr_mode, lock, fw_mode, stored, thrvars>>

\* ------------------------------------------------------- specifications
\* The prober alone, over every feature set.
InitProbe == InitWith(FeatureSets)
NextProbe == INIT_CRC_PCLMUL
SpecProbe == InitProbe /\ [][NextProbe]_vars

\* One context calling repeatedly, over every length.
Init == InitWith(FeatureCases)
Next ==
    \/ INIT_CRC_PCLMUL
    \/ CallSeq(1)
    \/ GateTaken(1)
    \/ GateNotTaken(1)
    \/ FpuBegin(1)
    \/ StaticCall(1)
    \/ FpuEnd(1)
    \/ Return(1)
    \/ Fallback(1)
    \/ Consume(1)
Spec == Init /\ [][Next]_vars

\* All contexts calling concurrently, each on its own buffer.
InitConc == InitWith(ConcFeatureCases)
NextConc ==
    \/ INIT_CRC_PCLMUL
    \/ \E c \in Ctx :
          \/ CallConc(c)
          \/ GateTaken(c)
          \/ GateNotTaken(c)
          \/ FpuBegin(c)
          \/ StaticCall(c)
          \/ FpuEnd(c)
          \/ Return(c)
          \/ Fallback(c)
          \/ Consume(c)
SpecConc == InitConc /\ [][NextConc]_vars

\* The CRC glue at rest, while the driver runs.
CrcAtRest ==
    /\ features = [as_vpclmulqdq |-> FALSE, vpclmulqdq |-> FALSE, avx2 |-> FALSE,
                   ymm |-> FALSE, avx512bw |-> FALSE, avx512vl |-> FALSE,
                   xavx512 |-> FALSE, prefer_ymm |-> FALSE]
    /\ have_pclmulqdq = FALSE
    /\ is_fallback_sliced = FALSE
    /\ slot = DefaultTarget
    /\ initDone = FALSE
    /\ updates = 0
    /\ CtxInit

\* amd_x3d_probe alone, over every answer of the platform.
InitX3dProbe == CrcAtRest /\ X3dInit(ParamCases)
NextX3dProbe == ProbeAny
SpecX3dProbe == InitX3dProbe /\ [][NextX3dProbe]_vars

\* The driver on a platform that supports the method: the probe, then
\* concurrent writes and reads of the mode attribute.
InitX3d == CrcAtRest /\ X3dInit(ParamCases)
NextX3d ==
    \/ ProbeSupported
    \/ Show
    \/ \E t \in Thr :
          \/ StoreEnter(t)
          \/ MutexLock(t)
          \/ EvaluateDsm(t)
          \/ SetMode(t)
          \/ MutexUnlock(t)
          \/ StoreReturn(t)
          \/ StoreDone(t)
SpecX3d == InitX3d /\ [][NextX3d]_vars

\* ------------------------------------------------------------- properties
\* The decision table as the specification words it: capability flags only.
ClaimedVariant(f) ==
    IF f.vpclmulqdq /\ f.avx2 /\ f.ymm
    THEN IF f.avx512bw /\ f.avx512vl /\ f.xavx512
         THEN IF f.prefer_ymm THEN "avx10_256" ELSE "avx10_512"
         ELSE "avx2"
    ELSE "sse"

\* The same table in a build with or without CONFIG_AS_VPCLMULQDQ.
BuiltVariant(f) == IF f.as_vpclmulqdq THEN ClaimedVariant(f) ELSE "sse"

WidestAvailable(f) == f.avx512bw /\ f.avx512vl /\ f.xavx512

\* The threshold as the specification words it.
ClaimedThreshold == IF is_fallback_sliced THEN 64 ELSE 16

\* C1 as stated: after INIT_CRC_PCLMUL the slot holds the variant of the
\* decision table over the capability flags alone (VPCLMULQDQ, AVX2 and YMM,
\* then the AVX512 flags, then the prefer-narrower hint), for every combination.
C1_Original ==
    initDone => slot = ClaimedVariant(features)

\* C1 amended: after INIT_CRC_PCLMUL the slot holds the variant of the decision
\* table when the build has CONFIG_AS_VPCLMULQDQ, and Baseline (sse) when it has
\* not; the prefer-narrower hint changes nothing unless the widest extension
\* is available.
C1_DecisionTable ==
    initDone =>
        /\ slot = BuiltVariant(features)
        /\ (~WidestAvailable(features) =>
               slot = BuiltVariant([features EXCEPT !.prefer_ymm = ~@]))

C1_Witness ==
    /\ initDone
    /\ features.as_vpclmulqdq
    /\ features.prefer_ymm
    /\ slot = "avx10_256"

\* The feature set of C2: carry-less multiply and AVX2 and nothing else.
OnlyClmulAndAvx2(f) ==
    /\ f.vpclmulqdq /\ f.avx2
    /\ ~f.ymm /\ ~f.avx512bw /\ ~f.avx512vl /\ ~f.xavx512 /\ ~f.prefer_ymm

\* C2 as stated: with carry-less multiply and base wide vector support only (no
\* other capability present), the prober selects Accelerated-Wide1 (avx2).
C2_Original ==
    (initDone /\ features.as_vpclmulqdq /\ OnlyClmulAndAvx2(features))
        => slot = "avx2"

\* C2 amended: in a build with CONFIG_AS_VPCLMULQDQ, with carry-less multiply,
\* base wide vector support and the OS context support for it (YMM) only, the
\* prober selects Accelerated-Wide1 (avx2).
C2_Wide1 ==
    (/\ initDone
     /\ features.as_vpclmulqdq
     /\ OnlyClmulAndAvx2([features EXCEPT !.ymm = FALSE])
     /\ features.ymm)
        => slot = "avx2"

C2_Witness ==
    /\ initDone
    /\ features.as_vpclmulqdq
    /\ OnlyClmulAndAvx2([features EXCEPT !.ymm = FALSE])
    /\ features.ymm
    /\ updates = 1

\* C3: a finished dispatch call (the macro, then the caller's fallback when the
\* macro fell through) returned what the scalar fallback returns for the same
\* accumulator, buffer and length, whatever the variant, the fallback kind and
\* the usability of SIMD.
C3_Equivalence ==
    \A c \in Ctx :
        pc[c] = "done" => ret[c] = crc_fallback(crc0[c], p[c], len[c])

C3_Witness ==
    \E c \in Ctx :
        /\ pc[c] = "done"
        /\ path[c] = "accel"
        /\ len[c] = 16
        /\ invoked[c] = "avx10_512"
        /\ ret[c] # crc0[c]

\* C4: a call is on the accelerated path exactly when the static key is set,
\* SIMD is usable and len >= 64 (sliced fallback) or len >= 16 (naive
\* fallback); otherwise it is on the fallback path.
C4_Gate ==
    \A c \in Ctx :
        /\ pc[c] \in {"begin", "call", "end", "return"} => path[c] = "accel"
        /\ pc[c] = "fallback" => path[c] = "fallback"
        /\ pc[c] = "done" => path[c] \in {"accel", "fallback"}
        /\ path[c] = "accel" <=>
               /\ pc[c] \notin {"idle", "entry"}
               /\ have_pclmulqdq
               /\ usable[c]
               /\ len[c] >= ClaimedThreshold
        /\ path[c] = "fallback" <=>
               /\ pc[c] \notin {"idle", "entry"}
               /\ ~(have_pclmulqdq /\ usable[c] /\ len[c] >= ClaimedThreshold)

C4_Witness ==
    \E c \in Ctx :
        /\ pc[c] = "done"
        /\ path[c] = "accel"
        /\ is_fallback_sliced
        /\ len[c] = 64

\* C5 as stated: one run of INIT_CRC_PCLMUL writes the slot exactly once, for
\* every feature set.
C5_Original ==
    initDone => updates = 1

\* C5 amended: one run of INIT_CRC_PCLMUL writes the slot at most once: exactly
\* once when it selects a variant other than Baseline, and not at all when it
\* selects Baseline (the slot keeps its default).
C5_AtMostOnce ==
    /\ ~initDone => updates = 0
    /\ initDone => updates = (IF BuiltVariant(features) = "sse" THEN 0 ELSE 1)

C5_Witness ==
    /\ initDone
    /\ updates = 0
    /\ slot = "sse"
    /\ features.vpclmulqdq

\* C6: before INIT_CRC_PCLMUL has run the slot holds Baseline (sse); afterwards
\* it holds the variant the prober chose, and no step of any dispatch call, in
\* any interleaving, changes it.
C6_SlotWrittenOnce ==
    /\ [](~initDone => slot = "sse")
    /\ [](initDone => slot = BuiltVariant(features))
    /\ [][initDone => slot' = slot]_vars

C6_Witness ==
    /\ initDone
    /\ slot = "avx10_512"
    /\ \E c \in Ctx : pc[c] = "done" /\ invoked[c] = "avx10_512"
    /\ \E c \in Ctx : pc[c] = "end"

\* C7: a call on the accelerated path has called kernel_fpu_begin once and not
\* kernel_fpu_end when the static call runs, has called each once when it
\* returns, and a context whose call has returned holds no FPU section.
C7_GuardPaired ==
    \A c \in Ctx :
        /\ pc[c] \in {"entry", "begin"} =>
               nbegin[c] = 0 /\ nend[c] = 0 /\ fpu[c] = 0 /\ invoked[c] = "none"
        /\ pc[c] = "call" =>
               nbegin[c] = 1 /\ nend[c] = 0 /\ fpu[c] = 1 /\ invoked[c] = "none"
        /\ pc[c] = "end" =>
               nbegin[c] = 1 /\ nend[c] = 0 /\ fpu[c] = 1 /\ invoked[c] # "none"
        /\ pc[c] = "return" =>
               nbegin[c] = 1 /\ nend[c] = 1 /\ fpu[c] = 0 /\ invoked[c] # "none"
        /\ (pc[c] = "done" /\ path[c] = "accel") =>
               nbegin[c] = 1 /\ nend[c] = 1 /\ invoked[c] # "none"
        /\ pc[c] \in {"done", "idle"} => fpu[c] = 0

C7_Witness ==
    \E c \in Ctx :
        /\ pc[c] = "done"
        /\ path[c] = "accel"
        /\ nbegin[c] = 1
        /\ nend[c] = 1
        /\ fpu[c] = 0

\* C8: a call made where SIMD is not usable never calls kernel_fpu_begin and
\* never runs the static call, for any length and static key, and returns the
\* scalar fallback's result; no call on the fallback path ever calls
\* kernel_fpu_begin.
C8_NoGuardOnFallback ==
    \A c \in Ctx :
        /\ (pc[c] # "idle" /\ ~usable[c]) =>
               /\ nbegin[c] = 0
               /\ fpu[c] = 0
               /\ invoked[c] = "none"
               /\ path[c] # "accel"
               /\ pc[c] = "done" => ret[c] = crc_fallback(crc0[c], p[c], len[c])
        /\ path[c] = "fallback" =>
               nbegin[c] = 0 /\ fpu[c] = 0 /\ invoked[c] = "none"

C8_Witness ==
    \E c \in Ctx :
        /\ pc[c] = "done"
        /\ ~usable[c]
        /\ have_pclmulqdq
        /\ len[c] = 65
        /\ path[c] = "fallback"

\* C9: no dispatch call reads the slot before INIT_CRC_PCLMUL has written it:
\* a call that is in CRC_PCLMUL runs after the prober, and the kernel it ran is
\* the variant the prober chose, never the default when another was chosen.
C9_WriteBeforeRead ==
    \A c \in Ctx :
        /\ pc[c] # "idle" => initDone
        /\ invoked[c] # "none" =>
               /\ invoked[c] = slot
               /\ invoked[c] = BuiltVariant(features)
               /\ updates <= 1

C9_Witness ==
    \E c \in Ctx :
        /\ invoked[c] = "avx2"
        /\ updates = 1

\* C10: with calls running concurrently in distinct contexts on distinct
\* buffers, every call returns the CRC of its own accumulator and buffer, and a
\* step of one context leaves the accumulator, the result and the FPU section
\* of every other context as they were.
C10_Independent ==
    /\ [](\A c \in Ctx :
            /\ pc[c] # "idle" => p[c] = c
            /\ pc[c] = "done" => ret[c] = crc_fallback(crc0[c], c, len[c]))
    /\ [][\A c \in Ctx :
            pc'[c] = pc[c] =>
                /\ crc'[c] = crc[c]
                /\ ret'[c] = ret[c]
                /\ fpu'[c] = fpu[c]
                /\ nbegin'[c] = nbegin[c]
                /\ nend'[c] = nend[c]
                /\ invoked'[c] = invoked[c]]_vars

C10_Witness ==
    /\ pc[1] = "end"
    /\ pc[2] = "end"
    /\ fpu[1] = 1
    /\ fpu[2] = 1
    /\ crc[1] # crc[2]

\* C11: a finished dispatch call on a zero-length buffer returned the
\* accumulator it was given, whatever the variant, the fallback kind, the
\* static key and the usability of SIMD.
C11_EmptyBuffer ==
    \A c \in Ctx :
        (pc[c] = "done" /\ len[c] = 0) => ret[c] = crc0[c]

C11_Witness ==
    \E c \in Ctx :
        /\ pc[c] = "done"
        /\ len[c] = 0
        /\ crc0[c] = 1
        /\ ret[c] = 1
        /\ have_pclmulqdq
        /\ usable[c]
        /\ slot = "avx10_256"

\* C12: whenever a call is about to run, or has run, a kernel through the
\* static call, its length is at least 16, for both fallback kinds and every
\* variant.
C12_KernelLength ==
    \A c \in Ctx :
        (pc[c] \in {"begin", "call", "end", "return"} \/ invoked[c] # "none")
            => len[c] >= 16

C12_Witness ==
    \E c \in Ctx :
        /\ pc[c] = "end"
        /\ invoked[c] = "sse"
        /\ ~is_fallback_sliced
        /\ len[c] = 16

\* C13: the slot always holds one of the four declared kernels, the prober
\* leaves the static key have_pclmulqdq alone, and a call made with the key
\* set, SIMD usable and len >= threshold goes through the FPU section and
\* runs the Baseline kernel (sse) whenever the prober chose Baseline.
C13_BaselineIsAccelerated ==
    /\ [](slot \in {"sse", "avx2", "avx10_256", "avx10_512"})
    /\ [][have_pclmulqdq' = have_pclmulqdq]_vars
    /\ [](\A c \in Ctx :
            (/\ pc[c] = "done"
             /\ have_pclmulqdq
             /\ usable[c]
             /\ len[c] >= ClaimedThreshold
             /\ BuiltVariant(features) = "sse")
                => (path[c] = "accel" /\ nbegin[c] = 1 /\ invoked[c] = "sse"))

C13_Witness ==
    \E c \in Ctx :
        /\ pc[c] = "done"
        /\ have_pclmulqdq
        /\ ~features.vpclmulqdq
        /\ path[c] = "accel"
        /\ invoked[c] = "sse"
        /\ len[c] = 64

\* The mode a written string asks for, as the attribute documents it:
\* "frequency" or "cache", with or without a trailing newline; -1 otherwise.
RequestedMode(b) ==
    IF b \in {FREQUENCY, FREQUENCY \o <<NL>>} THEN 0
    ELSE IF b \in {CACHE, CACHE \o <<NL>>} THEN 1
    ELSE -1

InSwitch == {"dsm", "set", "unlock"}

\* C14: mode switches are serialized by data->lock: at most one thread is
\* between the firmware call and the release of the mutex, the mutex is held
\* by exactly that thread and by no thread that has left amd_x3d_mode_switch,
\* and whenever the mutex is free curr_mode is the mode of the most recent
\* firmware call that succeeded.
C14_Serialized ==
    /\ \A t \in Thr : xpc[t] \in InSwitch <=> lock = t
    /\ \A t, u \in Thr : (xpc[t] \in InSwitch /\ xpc[u] \in InSwitch) => t = u
    /\ (probed = "bound" /\ lock = 0) => curr_mode = fw_mode

C14_Witness ==
    \E t, u \in Thr :
        /\ xpc[t] = "returned"
        /\ xwrote[t]
        /\ xpc[u] = "unlock"
        /\ xreq[u] # xreq[t]
        /\ ~xok[u]
        /\ curr_mode = xreq[t]

\* C15: a store of a string that names no mode returns a negative error
\* without a firmware call and without assigning curr_mode; a store whose
\* firmware call returns no object returns -EINVAL without assigning
\* curr_mode; a successful store returns count and assigned curr_mode the
\* requested mode; and curr_mode changes only by such an assignment.
C15_StoreResult ==
    /\ [](\A t \in Thr :
            xpc[t] = "returned" =>
                /\ RequestedMode(xbuf[t]) = -1 =>
                       xret[t] < 0 /\ ~xdsm[t] /\ ~xwrote[t]
                /\ (RequestedMode(xbuf[t]) # -1 /\ ~xok[t]) =>
                       xret[t] = -22 /\ xdsm[t] /\ ~xwrote[t]
                /\ (RequestedMode(xbuf[t]) # -1 /\ xok[t]) =>
                       xret[t] = Len(xbuf[t]) /\ xdsm[t] /\ xwrote[t])
    /\ [][\A t \in Thr :
            (xwrote'[t] /\ ~xwrote[t]) =>
                (xok[t] /\ curr_mode' = RequestedMode(xbuf[t]))]_vars
    /\ [][(probed = "bound" /\ curr_mode' # curr_mode) =>
            \E t \in Thr : xwrote'[t] /\ ~xwrote[t]]_vars

C15_Witness ==
    \E t, u \in Thr :
        /\ xpc[t] = "returned"
        /\ xbuf[t] = CACHE
        /\ ~xok[t]
        /\ xret[t] = -22
        /\ curr_mode = 0
        /\ xpc[u] = "returned"
        /\ xbuf[u] = TURBO \o <<NL>>
        /\ xret[u] < 0

\* C16: amd_x3d_probe returns an error, without the set-mode firmware call and
\* without binding the device, whenever the ACPI ID does not match or
\* amd_x3d_supported fails.
C16_ProbeRejects ==
    (probed # "no" /\ (~probe_in.id \/ probe_in.sup # "buffer"))
        => (probe_ret < 0 /\ ~probe_set /\ probed # "bound")

\* C17: once the probe has succeeded curr_mode is MODE_INDEX_FREQ or
\* MODE_INDEX_CACHE, every read of the attribute returned "frequency" or
\* "cache" (and a newline) for the curr_mode it read and never -EINVAL, and
\* until a store assigns it curr_mode is the mode x3d_mode names.
C17_ModeInRange ==
    probed = "bound" =>
        /\ curr_mode \in {0, 1}
        /\ shown.err = 0
        /\ shown # NotShown =>
               shown.text = (IF shown.mode = 0 THEN FREQUENCY ELSE CACHE) \o <<NL>>
        /\ ~stored => curr_mode = (IF x3d_mode = FREQUENCY THEN 0 ELSE 1)
        /\ x3d_mode \in {FREQUENCY, CACHE}

C17_Witness ==
    /\ probed = "bound"
    /\ x3d_mode = FREQUENCY
    /\ stored
    /\ curr_mode = 1
    /\ shown.text = CACHE \o <<NL>>
    /\ \E t \in Thr : xpc[t] = "returned" /\ xret[t] < 0

====
